---- MODULE Spec2Model ----
(***************************************************************************)
(* Model of MediaProcessor (src/main.py): the parameter tiering of         *)
(* process_image / process_video, the perceptual-hash comparison, the      *)
(* keyframe / audio analysis of analyze_video_uniqueness and the risk      *)
(* classifier get_risk_level.                                              *)
(*                                                                         *)
(* One caller drives one MediaProcessor and makes one call at a time.      *)
(* Each operation keeps the locals of its call in a record named after it  *)
(* (analyze_video_uniqueness, which is modelled step by step, in variables *)
(* named after its locals); the caller drops them, and the processor with  *)
(* its working directory, before the next call (Release).                  *)
(*                                                                         *)
(* The application around the processor is modelled too: main() with its   *)
(* CLI and GUI branches, MainWindow's load_file / generate_preview /       *)
(* export_media, and the threads PreviewThread and ProcessingThread, whose *)
(* run methods are taken step by step and interleave (SpecApp).            *)
(*                                                                         *)
(* Decimal numbers are fixed point in thousandths (0.002 is 2, 1.5 is      *)
(* 1500).  Percentages are exact rationals [num, den] with den > 0.        *)
(***************************************************************************)
EXTENDS Integers, Sequences, FiniteSets, TLC

VARIABLES
    video,              \* locals of the latest process_video call
    image,              \* locals of the latest process_image call
    phash,              \* locals of the latest calculate_phash_difference call
    risk,               \* argument and result of the latest get_risk_level call
    pc,                 \* position inside analyze_video_uniqueness
    original_clip,      \* analyze_video_uniqueness: VideoFileClip(original_path)
    processed_clip,     \* analyze_video_uniqueness: VideoFileClip(processed_path)
    duration,           \* analyze_video_uniqueness: min of the two durations
    keyframe_times,     \* analyze_video_uniqueness: np.linspace(...)
    t_index,            \* analyze_video_uniqueness: time points the loop has taken
    sample,             \* analyze_video_uniqueness: the loop's latest iteration
    phash_differences,  \* analyze_video_uniqueness: list of per-sample percentages
    avg_phash_diff,     \* analyze_video_uniqueness: the aggregate
    audio_similarity,   \* analyze_video_uniqueness: the audio score
    temp_files,         \* files in self.temp_dir: set of [name, content]
    analysis,           \* what analyze_video_uniqueness returned
    temp_dir,           \* whether the directory made by tempfile.mkdtemp() exists
    mode,               \* who drives the processor: a direct caller, or main()
    cli,                \* main(), CLI branch: its locals and how it ended
    window,             \* MainWindow: current_file, media_type, level_slider
    workers             \* the threads MainWindow has started, by start order

vars == <<video, image, phash, risk, pc, original_clip, processed_clip, duration,
          keyframe_times, t_index, sample, phash_differences, avg_phash_diff,
          audio_similarity, temp_files, analysis, temp_dir, mode, cli, window,
          workers>>

\* the state of the application around the processor
app_vars == <<temp_dir, mode, cli, window, workers>>

analysis_vars == <<pc, original_clip, processed_clip, duration, keyframe_times,
                   t_index, sample, phash_differences, avg_phash_diff, audio_similarity,
                   analysis>>

-----------------------------------------------------------------------------
(* Bounds of the model *)

\* levels handed to process_image / process_video range over -1..MaxLevel
MaxLevel == 6
\* random.uniform(a, b) is drawn at DrawSteps + 1 evenly spaced points of [a, b]
DrawSteps == 1
\* image sides range over the set ImageSides, whose largest member is MaxSide
MaxSide == 40
\* clip durations are counted in half seconds, up to MaxHalfSeconds
MaxHalfSeconds == 23
\* threads one window session starts
MaxWorkers == 2

-----------------------------------------------------------------------------
(* Numbers *)

\* one unit of the fixed-point representation of a decimal
Milli == 10 * 10 * 10

\* Python's None; a record, so that it compares with every record value
None == [none |-> TRUE]
Raised == "raised"
\* the value of an expression whose evaluation raised
Error == [error |-> TRUE]

Rat(n, d) == [num |-> n, den |-> d]
RatLeq(x, y) == x.num * y.den <= y.num * x.den
RatEq(x, y) == x.num * y.den = y.num * x.den
RatOfInt(n) == Rat(n, 1)

Min(a, b) == IF a <= b THEN a ELSE b

-----------------------------------------------------------------------------
(* process_video *)

Levels == -1 .. MaxLevel

\* durations of the video files at hand, in half seconds
ClipDurations == {0, 1, 2, 3, 5, 7, 9, MaxHalfSeconds}

\* what ffmpeg.probe can find at input_path
VideoSources ==
    { [readable |-> FALSE, has_video |-> FALSE, has_audio |-> FALSE, duration |-> 0] }
    \cup [readable : {TRUE}, has_video : BOOLEAN, has_audio : BOOLEAN,
          duration : ClipDurations \cup {20}]

VideoTierMutant(level) ==
    IF level = 1 THEN [zoom_rate |-> 2, jitter_range |-> 1 * Milli, gop_size |-> 30, crf |-> 22]
    ELSE IF level = 2 THEN [zoom_rate |-> 3, jitter_range |-> 1500, gop_size |-> 25, crf |-> 21]
    ELSE IF level = 3 THEN [zoom_rate |-> 5, jitter_range |-> 2 * Milli, gop_size |-> 20, crf |-> 20]
    ELSE [zoom_rate |-> 5 + level, jitter_range |-> 2 * Milli, gop_size |-> 20, crf |-> 23 - level]

VideoTierFloorMutant(level) ==
    IF level <= 1 THEN [zoom_rate |-> 2, jitter_range |-> 1 * Milli, gop_size |-> 30, crf |-> 22]
    ELSE IF level = 2 THEN [zoom_rate |-> 3, jitter_range |-> 1500, gop_size |-> 25, crf |-> 21]
    ELSE [zoom_rate |-> 5, jitter_range |-> 2 * Milli, gop_size |-> 20, crf |-> 20]

\* the if / elif / else over level
VideoTier(level) ==
    IF level = 1 THEN [zoom_rate |-> 2, jitter_range |-> 1 * Milli, gop_size |-> 30, crf |-> 22]
    ELSE IF level = 2 THEN [zoom_rate |-> 3, jitter_range |-> 1500, gop_size |-> 25, crf |-> 21]
    ELSE [zoom_rate |-> 5, jitter_range |-> 2 * Milli, gop_size |-> 20, crf |-> 20]

\* input_video.audio is a stream selector object: it is truthy whether or not
\* the source has an audio stream
AudioInputTruthy(src) == TRUE

NoVideo == [called |-> FALSE]
NoImage == [called |-> FALSE]
NoPhash == [called |-> FALSE]
NoRisk == [called |-> FALSE]

\* everything analyze_video_uniqueness keeps, before any call of it
AnalysisIdle ==
    /\ pc = "idle"
    /\ original_clip = None /\ processed_clip = None
    /\ duration = None /\ keyframe_times = << >> /\ t_index = 0
    /\ sample = None /\ phash_differences = << >>
    /\ avg_phash_diff = None /\ audio_similarity = None
    /\ analysis = None

AnalysisReset ==
    /\ pc' = "idle"
    /\ original_clip' = None /\ processed_clip' = None
    /\ duration' = None /\ keyframe_times' = << >> /\ t_index' = 0
    /\ sample' = None /\ phash_differences' = << >>
    /\ avg_phash_diff' = None /\ audio_similarity' = None
    /\ analysis' = None

\* a call can start when the previous one has been released
CanCall ==
    /\ pc = "idle"
    /\ ~video.called /\ ~image.called /\ ~phash.called /\ ~risk.called

\* whether ffmpeg.probe and the stream lookup succeed, and whether ffmpeg.run
\* then encodes: the audio chain of a source without audio stream matches no
\* stream
VideoProbes(src) == src.readable /\ src.has_video
VideoEncodes(src, run_ok) ==
    VideoProbes(src) /\ run_ok /\ (AudioInputTruthy(src) => src.has_audio)

\* process_video(input_path, output_path, level); run_ok is whether the
\* encoder itself succeeds on a well-formed command
process_video(src, level, run_ok) ==
    /\ CanCall
    /\ LET tier == VideoTier(level)
           audio_processed == AudioInputTruthy(src)
           probed == VideoProbes(src)
           ran == VideoEncodes(src, run_ok)
       IN video' =
            IF ~probed
            THEN [called |-> TRUE, src |-> src, level |-> level, status |-> Raised,
                  encoded |-> FALSE]
            ELSE [called |-> TRUE, src |-> src, level |-> level,
                  zoom_rate |-> tier.zoom_rate, jitter_range |-> tier.jitter_range,
                  gop_size |-> tier.gop_size, crf |-> tier.crf,
                  audio_mapped |-> audio_processed,
                  encoded |-> ran,
                  status |-> IF ran THEN "True" ELSE Raised]
    /\ UNCHANGED <<image, phash, risk, temp_files>>
    /\ UNCHANGED app_vars
    /\ UNCHANGED analysis_vars

-----------------------------------------------------------------------------
(* process_image *)

Max(a, b) == IF a >= b THEN a ELSE b

ImageSides == {1, 7, MaxSide}

\* what cv2.imread can find at input_path: None for an unreadable file
ImageSources ==
    { [readable |-> FALSE, width |-> 0, height |-> 0] }
    \cup [readable : {TRUE}, width : ImageSides, height : ImageSides]

\* random.uniform(a, b): a + (b - a) * random(), a value of [a, b]
RandomUniform(a, b) == { a + ((b - a) * k) \div DrawSteps : k \in 0 .. DrawSteps }

RandomIntMutant(a, b) == a .. b + 1

\* random.randint(a, b): both ends included
RandomInt(a, b) == a .. b

ImageTierMutant(level) ==
    IF level = 1 THEN
        [crop |-> <<20, 30>>, scale |-> <<995, 1005>>, noise_opacity |-> 2,
         h |-> <<-500, 500>>, s |-> <<-1000, 1000>>, l |-> <<-1500, 1500>>]
    ELSE IF level = 2 THEN
        [crop |-> <<20, 40>>, scale |-> <<985, 1015>>, noise_opacity |-> 3,
         h |-> <<-800, 800>>, s |-> <<-1500, 1500>>, l |-> <<-2500, 2500>>]
    ELSE
        [crop |-> <<30, 60>>, scale |-> <<970, 1030>>, noise_opacity |-> 4,
         h |-> <<-1000, 1000>>, s |-> <<-3000, 3000>>, l |-> <<-2000, 2000>>]

\* the if / elif / else over level: the range of every draw
ImageTier(level) ==
    IF level = 1 THEN
        [crop |-> <<20, 30>>, scale |-> <<995, 1005>>, noise_opacity |-> 2,
         h |-> <<-500, 500>>, s |-> <<-1000, 1000>>, l |-> <<-1500, 1500>>]
    ELSE IF level = 2 THEN
        [crop |-> <<20, 40>>, scale |-> <<985, 1015>>, noise_opacity |-> 3,
         h |-> <<-800, 800>>, s |-> <<-1500, 1500>>, l |-> <<-2500, 2500>>]
    ELSE
        [crop |-> <<30, 60>>, scale |-> <<970, 1030>>, noise_opacity |-> 4,
         h |-> <<-1000, 1000>>, s |-> <<-2000, 2000>>, l |-> <<-3000, 3000>>]

\* int(side * (1 - crop_percent)), crop_percent in thousandths
CropSide(side, crop_percent) == (side * (Milli - crop_percent)) \div Milli

\* length of the numpy slice [start : stop] of an axis of n elements
SliceLen(start, stop, n) == Max(0, Min(stop, n) - Min(start, n))

\* cv2.resize(img, (width, height)): an empty source is an error
Resize(shape, width, height) ==
    IF shape.width = 0 \/ shape.height = 0
    THEN Error
    ELSE [width |-> width, height |-> height]

\* cv2.warpAffine(img, rotation_matrix, (width, height)), then the noise blend
\* and the colour shift, which keep the shape
WarpAffine(shape, width, height) == [width |-> width, height |-> height]

\* the path of the source image, and the paths a caller can pass as
\* output_path: the source's own path or another one
InputPath == "input.jpg"
OutputPaths == {InputPath, "output.jpg"}

\* what a path holds: the source image as it was, or a transformed image
SourceFile(src) == [image |-> src, processed |-> FALSE]
ProcessedFile(img) == [image |-> img, processed |-> TRUE]

\* what input_path holds after cv2.imwrite(output_path, img): imwrite
\* replaces the file at output_path, whichever file that is
InputAfterWrite(src, output_path, written) ==
    IF output_path = InputPath /\ written # None
    THEN ProcessedFile(written) ELSE SourceFile(src)

\* process_image(input_path, output_path, level); write_ok is whether
\* cv2.imwrite manages to write (it reports a failure by returning False)
process_image(src, output_path, level, write_ok) ==
    /\ CanCall
    /\ IF ~src.readable
       THEN \* img is None: img.shape raises
            image' = [called |-> TRUE, src |-> src, level |-> level, status |-> Raised,
                      drawn |-> FALSE, written |-> None,
                      output_path |-> output_path,
                      input_after |-> SourceFile(src)]
       ELSE LET tier == ImageTier(level)
                width == src.width
                height == src.height
            IN \E crop_percent \in RandomUniform(tier.crop[1], tier.crop[2]),
                  scale_factor \in RandomUniform(tier.scale[1], tier.scale[2]),
                  color_shift_h \in RandomUniform(tier.h[1], tier.h[2]),
                  color_shift_s \in RandomUniform(tier.s[1], tier.s[2]),
                  color_shift_l \in RandomUniform(tier.l[1], tier.l[2]) :
                 LET crop_w == CropSide(width, crop_percent)
                     crop_h == CropSide(height, crop_percent)
                 IN \E start_x \in RandomInt(0, width - crop_w),
                       start_y \in RandomInt(0, height - crop_h) :
                      LET cropped ==
                              [width |-> SliceLen(start_x, start_x + crop_w, width),
                               height |-> SliceLen(start_y, start_y + crop_h, height)]
                          resized == Resize(cropped, width, height)
                          img == IF resized = Error THEN Error
                                 ELSE WarpAffine(resized, width, height)
                          written == IF img = Error \/ ~write_ok THEN None ELSE img
                      IN image' =
                           [called |-> TRUE, src |-> src, level |-> level,
                            drawn |-> TRUE,
                            output_path |-> output_path,
                            input_after |-> InputAfterWrite(src, output_path, written),
                            crop_percent |-> crop_percent,
                            scale_factor |-> scale_factor,
                            noise_opacity |-> tier.noise_opacity,
                            color_shift_h |-> color_shift_h,
                            color_shift_s |-> color_shift_s,
                            color_shift_l |-> color_shift_l,
                            crop_w |-> crop_w, crop_h |-> crop_h,
                            start_x |-> start_x, start_y |-> start_y,
                            written |-> written,
                            status |-> IF img = Error THEN Raised ELSE "True"]
    /\ UNCHANGED <<video, phash, risk, temp_files>>
    /\ UNCHANGED app_vars
    /\ UNCHANGED analysis_vars

-----------------------------------------------------------------------------
(* get_risk_level *)

RiskLow == "low"
RiskMedium == "medium"
RiskHigh == "high"

get_risk_level_mutant(phash_diff, audio) ==
    IF RatLeq(RatOfInt(45), phash_diff) /\ audio = None THEN RiskLow
    ELSE IF RatLeq(RatOfInt(30), phash_diff) THEN RiskMedium
    ELSE RiskHigh

\* get_risk_level(phash_diff, audio_similarity=None)
get_risk_level(phash_diff, audio) ==
    IF RatLeq(RatOfInt(45), phash_diff) THEN RiskLow
    ELSE IF RatLeq(RatOfInt(30), phash_diff) THEN RiskMedium
    ELSE RiskHigh

\* percentages handed to the classifier: every quarter percent of [0, 100]
\* and the thousandths next to the two thresholds
RiskInputs ==
    { Rat(q, 4) : q \in 0 .. 400 }
    \cup { Rat(t, Milli) : t \in {29999, 30001, 44999, 45001} }

RiskAudioInputs == { None, Rat(0, 1), Rat(50, 1), Rat(100, 1) }

classify_risk(p, audio) ==
    /\ CanCall
    /\ risk' = [called |-> TRUE, phash_diff |-> p, audio_similarity |-> audio,
                label |-> get_risk_level(p, audio)]
    /\ UNCHANGED <<video, image, phash, temp_files>>
    /\ UNCHANGED app_vars
    /\ UNCHANGED analysis_vars

-----------------------------------------------------------------------------
(* Perceptual hash: imagehash.phash and ImageHash.__sub__ *)

\* imagehash.phash is called with its default hash_size
HashSize == 8
\* hash.hash.dtype.itemsize of the boolean hash array
BoolItemSize == 1
\* bits per byte in the max_diff expression
BitsPerByte == 8

HashIndex == 1 .. HashSize
HashCells == HashIndex \X HashIndex

\* An image is known by the low-frequency block of its DCT, the HashSize x
\* HashSize coefficients phash thresholds; an invalid image cannot be opened.
SolidCoef(r, c) == IF r = 1 /\ c = 1 THEN 8 ELSE 0
GrayCoef(r, c) == 0
RampCoef(r, c) == IF 2 * r <= HashSize THEN 1 ELSE -1
RampInvCoef(r, c) == IF 2 * r <= HashSize THEN -1 ELSE 1
CheckerCoef(r, c) == IF (r + c) % 2 = 0 THEN 3 ELSE -2

ImgSolid ==
    [valid |-> TRUE, name |-> "solid",
     dct |-> [r \in HashIndex |-> [c \in HashIndex |-> SolidCoef(r, c)]]]
ImgGray ==
    [valid |-> TRUE, name |-> "gray",
     dct |-> [r \in HashIndex |-> [c \in HashIndex |-> GrayCoef(r, c)]]]
ImgRamp ==
    [valid |-> TRUE, name |-> "ramp",
     dct |-> [r \in HashIndex |-> [c \in HashIndex |-> RampCoef(r, c)]]]
ImgRampInv ==
    [valid |-> TRUE, name |-> "rampinv",
     dct |-> [r \in HashIndex |-> [c \in HashIndex |-> RampInvCoef(r, c)]]]
ImgChecker ==
    [valid |-> TRUE, name |-> "checker",
     dct |-> [r \in HashIndex |-> [c \in HashIndex |-> CheckerCoef(r, c)]]]
ImgInvalid ==
    [valid |-> FALSE, name |-> "invalid",
     dct |-> [r \in HashIndex |-> [c \in HashIndex |-> GrayCoef(r, c)]]]

Images == {ImgSolid, ImgGray, ImgRamp, ImgRampInv, ImgChecker, ImgInvalid}

\* the k-th smallest coefficient of a block
OrderStat(dct, k) ==
    CHOOSE v \in { dct[cell[1]][cell[2]] : cell \in HashCells } :
        /\ Cardinality({ cell \in HashCells : dct[cell[1]][cell[2]] < v }) < k
        /\ Cardinality({ cell \in HashCells : dct[cell[1]][cell[2]] <= v }) >= k

\* imagehash.phash: a bit is set where the coefficient exceeds the median
\* (the mean of the two middle coefficients)
Phash(img) ==
    LET half == (HashSize * HashSize) \div 2
        twice_med == OrderStat(img.dct, half) + OrderStat(img.dct, half + 1)
    IN [r \in HashIndex |-> [c \in HashIndex |-> 2 * img.dct[r][c] > twice_med]]

\* ImageHash.__sub__: the number of positions where the two hashes differ
HashSub(h1, h2) ==
    Cardinality({ cell \in HashCells : h1[cell[1]][cell[2]] # h2[cell[1]][cell[2]] })

MaxDiffMutant(h) == Len(h) * BitsPerByte * BitsPerByte

\* len(hash.hash) * hash.hash.dtype.itemsize * 8: rows times item size times 8
MaxDiff(h) == Len(h) * BoolItemSize * BitsPerByte

\* (diff / max_diff) * 100
Percentage(diff, max_diff) == Rat(diff * 100, max_diff)

\* the hash of every image at hand, computed once
HashOf == [img \in Images |-> Phash(img)]

\* the percentage of two opened images (lines 69-75 and 238-244)
PhashDifference(img1, img2) ==
    LET hash1 == HashOf[img1]
        hash2 == HashOf[img2]
    IN Percentage(HashSub(hash1, hash2), MaxDiff(hash1))

\* calculate_phash_difference(img1_path, img2_path)
calculate_phash_difference(img1, img2) ==
    /\ CanCall
    /\ phash' =
         IF ~img1.valid \/ ~img2.valid
         THEN [called |-> TRUE, img1 |-> img1.name, img2 |-> img2.name,
               status |-> Raised]
         ELSE [called |-> TRUE, img1 |-> img1.name, img2 |-> img2.name,
               hash1 |-> HashOf[img1], hash2 |-> HashOf[img2],
               percentage |-> PhashDifference(img1, img2),
               status |-> "ok"]
    /\ UNCHANGED <<video, image, risk, temp_files>>
    /\ UNCHANGED app_vars
    /\ UNCHANGED analysis_vars

-----------------------------------------------------------------------------
(* analyze_video_uniqueness *)

\* the cap on the number of time points in min(10, int(duration))
MaxKeyframes == 10

\* a decoded audio track: its samples
Wave(samples) == [samples |-> samples]

Waves == { Wave(<<1, 1>>), Wave(<<-1, -1, 0>>), Wave(<<1, -1>>), Wave(<<1, 0, 1>>),
           Wave(<<0, 0>>) }

\* a video file as VideoFileClip sees it: duration in half seconds, audio
\* None when the file has no audio track
Clip(d, a) == [readable |-> TRUE, duration |-> d, audio |-> a]
UnreadableClip == [readable |-> FALSE, duration |-> 0, audio |-> None]

\* the clips at hand: silent ones of every duration, and 2.5-second ones with
\* each audio track
ClipLibrary ==
    { Clip(d, None) : d \in ClipDurations }
    \cup { Clip(5, w) : w \in Waves }
    \cup { UnreadableClip }

\* what get_frame(t) can give: a frame, or an error
FrameImages == {ImgRamp, ImgChecker}
FrameOutcomes == FrameImages \cup {ImgInvalid}

\* int(x) of a non-negative rational
IntOf(x) == x.num \div x.den

KeyframeCountMutant(d) == IntOf(d)

\* min(10, int(duration))
KeyframeCount(d) == Min(MaxKeyframes, IntOf(d))

\* np.linspace(0, stop, num): num points from 0 to stop, both included
Linspace(stop, num) ==
    IF num = 1 THEN << Rat(0, 1) >>
    ELSE [i \in 1 .. num |-> Rat((i - 1) * stop.num, stop.den * (num - 1))]

RatAdd(x, y) ==
    IF x.den = y.den THEN Rat(x.num + y.num, x.den)
    ELSE Rat(x.num * y.den + y.num * x.den, x.den * y.den)

RECURSIVE RatSum(_)
RatSum(s) == IF s = << >> THEN Rat(0, 1) ELSE RatAdd(Head(s), RatSum(Tail(s)))

\* np.mean(list): the sum over the length; 0 / 0 (nan) for an empty list
NpMean(s) == IF s = << >> THEN Rat(0, 0) ELSE Rat(RatSum(s).num, RatSum(s).den * Len(s))

AvgPhashDiffMutant(s) == NpMean(s)

\* np.mean(phash_differences) if phash_differences else 0
AvgPhashDiff(s) == IF s # << >> THEN NpMean(s) ELSE Rat(0, 1)

\* VideoFileClip(original_path), VideoFileClip(processed_path), the duration
\* and the time points
analyze_open(a, b) ==
    /\ CanCall
    /\ original_clip' = a
    /\ processed_clip' = b
    /\ IF a.readable /\ b.readable
       THEN LET d == Rat(Min(a.duration, b.duration), 2)
            IN /\ duration' = d
               /\ keyframe_times' = Linspace(d, KeyframeCount(d))
               /\ pc' = "loop"
               /\ analysis' = None
       ELSE /\ duration' = None
            /\ keyframe_times' = << >>
            /\ pc' = "returned"
            /\ analysis' = [status |-> Raised]
    /\ t_index' = 0
    /\ phash_differences' = << >>
    /\ UNCHANGED <<sample, avg_phash_diff, audio_similarity>>
    /\ UNCHANGED <<video, image, phash, risk, temp_files>>
    /\ UNCHANGED app_vars

SampleSkipsMutant(orig_frame, proc_frame) == ~orig_frame.valid /\ ~proc_frame.valid

\* whether the try body of one iteration raises: get_frame failed on either clip
SampleSkips(orig_frame, proc_frame) == ~orig_frame.valid \/ ~proc_frame.valid

\* one iteration of the loop over keyframe_times: try ... except: continue;
\* sample.failed records whether either get_frame failed
analyze_sample(orig_frame, proc_frame) ==
    /\ pc = "loop"
    /\ t_index < Len(keyframe_times)
    /\ t_index' = t_index + 1
    /\ LET failed == ~orig_frame.valid \/ ~proc_frame.valid
       IN IF SampleSkips(orig_frame, proc_frame)
          THEN /\ sample' = [failed |-> failed, percentage |-> Rat(0, 0)]
               /\ UNCHANGED phash_differences
          ELSE LET percentage == PhashDifference(orig_frame, proc_frame)
               IN /\ sample' = [failed |-> failed, percentage |-> percentage]
                  /\ phash_differences' = Append(phash_differences, percentage)
    /\ UNCHANGED <<pc, original_clip, processed_clip, duration, keyframe_times,
                   avg_phash_diff, audio_similarity, analysis>>
    /\ UNCHANGED <<video, image, phash, risk, temp_files>>
    /\ UNCHANGED app_vars

\* bool(clip.audio) of both clips
BothHaveAudio(a, b) == a.audio # None /\ b.audio # None

\* after the loop: the average, audio_similarity = 0 and the audio test
analyze_aggregate ==
    /\ pc = "loop"
    /\ t_index = Len(keyframe_times)
    /\ avg_phash_diff' = AvgPhashDiff(phash_differences)
    /\ audio_similarity' = Rat(0, 1)
    /\ pc' = IF BothHaveAudio(original_clip, processed_clip)
             THEN "write_orig" ELSE "close"
    /\ UNCHANGED <<original_clip, processed_clip, duration, keyframe_times, t_index,
                   sample, phash_differences, analysis>>
    /\ UNCHANGED <<video, image, phash, risk, temp_files>>
    /\ UNCHANGED app_vars

\* the two fixed file names in self.temp_dir
OrigAudioPath == "orig_audio.wav"
ProcAudioPath == "proc_audio.wav"

\* writing a file replaces what the name held
WriteFile(files, name, content) ==
    { f \in files : f.name # name } \cup { [name |-> name, content |-> content] }

RemoveFile(files, name) == { f \in files : f.name # name }

FileExists(files, name) == \E f \in files : f.name = name

ReadFile(files, name) == (CHOOSE f \in files : f.name = name).content

\* a float: a value in thousandths, or nan
Float(v) == [nan |-> FALSE, v |-> v]
NaN == [nan |-> TRUE, v |-> 0]

\* x[:n]
Truncate(x, n) == SubSeq(x, 1, n)

\* a short-time Fourier transform with frames of two samples, one sample
\* apart: each frame gives the bins x[i] + x[i+1] and x[i] - x[i+1];
\* flattened bin by bin
Stft(x) ==
    [j \in 1 .. 2 * (Len(x) - 1) |->
        IF j <= Len(x) - 1 THEN x[j] + x[j + 1]
        ELSE x[j - (Len(x) - 1)] - x[j - (Len(x) - 1) + 1]]

MagnitudeMutant(spec) == spec

\* np.abs(spec).flatten()
Magnitude(spec) == [j \in 1 .. Len(spec) |-> IF spec[j] < 0 THEN -spec[j] ELSE spec[j]]

RECURSIVE Dot(_, _)
Dot(u, v) == IF u = << >> THEN 0 ELSE Head(u) * Head(v) + Dot(Tail(u), Tail(v))

\* floor of 1000 * |uv| / sqrt(uuvv), for uuvv > 0
RatioMilli(uv, uuvv) ==
    CHOOSE r \in 0 .. 2 * Milli :
        /\ r * r * uuvv <= Milli * Milli * uv * uv
        /\ (r + 1) * (r + 1) * uuvv > Milli * Milli * uv * uv

\* scipy.spatial.distance.cosine: 1 - u.v / (|u| |v|), clipped to [0, 2];
\* nan when either vector is all zero
Cosine(u, v) ==
    LET uv == Dot(u, v)
        uuvv == Dot(u, u) * Dot(v, v)
    IN IF uuvv = 0 THEN NaN
       ELSE LET ratio == IF uv < 0 THEN -RatioMilli(uv, uuvv) ELSE RatioMilli(uv, uuvv)
            IN Float(Max(0, Min(2 * Milli, Milli - ratio)))

\* Python's max(0, x): x when x > 0 holds, else 0 (so 0 for nan)
PyMaxZero(x) == IF ~x.nan /\ x.v > 0 THEN x ELSE Float(0)

\* lines 267-275: truncate to the common length, spectrograms, cosine
\* similarity, max(0, (1 - similarity) * 100); the result in percent
AudioDissimilarity(orig_audio, proc_audio) ==
    LET n == Min(Len(orig_audio), Len(proc_audio))
        orig_spec == Stft(Truncate(orig_audio, n))
        proc_spec == Stft(Truncate(proc_audio, n))
        dist == Cosine(Magnitude(orig_spec), Magnitude(proc_spec))
        similarity == IF dist.nan THEN NaN ELSE Float(Milli - dist.v)
        scaled == IF similarity.nan THEN NaN ELSE Float((Milli - similarity.v) * 100)
    IN Rat(PyMaxZero(scaled).v, Milli)

\* the step taken when the audio try block raises: except: pass
AudioBranchFails ==
    /\ pc' = "except"
    /\ UNCHANGED <<audio_similarity, temp_files>>

\* original_clip.audio.write_audiofile(orig_audio_path)
analyze_write_orig(ok) ==
    /\ pc = "write_orig"
    /\ IF ok
       THEN /\ temp_files' = WriteFile(temp_files, OrigAudioPath, original_clip.audio)
            /\ pc' = "write_proc"
            /\ UNCHANGED audio_similarity
       ELSE AudioBranchFails
    /\ UNCHANGED <<original_clip, processed_clip, duration, keyframe_times, t_index,
                   sample, phash_differences, avg_phash_diff, analysis>>
    /\ UNCHANGED <<video, image, phash, risk>>
    /\ UNCHANGED app_vars

\* processed_clip.audio.write_audiofile(proc_audio_path)
analyze_write_proc(ok) ==
    /\ pc = "write_proc"
    /\ IF ok
       THEN /\ temp_files' = WriteFile(temp_files, ProcAudioPath, processed_clip.audio)
            /\ pc' = "compare"
            /\ UNCHANGED audio_similarity
       ELSE AudioBranchFails
    /\ UNCHANGED <<original_clip, processed_clip, duration, keyframe_times, t_index,
                   sample, phash_differences, avg_phash_diff, analysis>>
    /\ UNCHANGED <<video, image, phash, risk>>
    /\ UNCHANGED app_vars

\* librosa.load of both files, the spectrograms and the cosine comparison
analyze_compare(ok) ==
    /\ pc = "compare"
    /\ IF ok /\ FileExists(temp_files, OrigAudioPath)
             /\ FileExists(temp_files, ProcAudioPath)
       THEN /\ audio_similarity' =
                 AudioDissimilarity(ReadFile(temp_files, OrigAudioPath).samples,
                                    ReadFile(temp_files, ProcAudioPath).samples)
            /\ pc' = "cleanup"
            /\ UNCHANGED temp_files
       ELSE AudioBranchFails
    /\ UNCHANGED <<original_clip, processed_clip, duration, keyframe_times, t_index,
                   sample, phash_differences, avg_phash_diff, analysis>>
    /\ UNCHANGED <<video, image, phash, risk>>
    /\ UNCHANGED app_vars

\* os.remove(orig_audio_path); os.remove(proc_audio_path)
analyze_cleanup ==
    /\ pc = "cleanup"
    /\ temp_files' = RemoveFile(RemoveFile(temp_files, OrigAudioPath), ProcAudioPath)
    /\ pc' = "close"
    /\ UNCHANGED <<original_clip, processed_clip, duration, keyframe_times, t_index,
                   sample, phash_differences, avg_phash_diff, audio_similarity,
                   analysis>>
    /\ UNCHANGED <<video, image, phash, risk>>
    /\ UNCHANGED app_vars

\* original_clip.close(); processed_clip.close();
\* return avg_phash_diff, audio_similarity
analyze_close ==
    /\ pc \in {"close", "except"}
    /\ analysis' = [status |-> "ok", avg_phash_diff |-> avg_phash_diff,
                    audio_similarity |-> audio_similarity,
                    audio_error |-> (pc = "except"),
                    clips_closed |-> TRUE]
    /\ pc' = "returned"
    /\ UNCHANGED <<original_clip, processed_clip, duration, keyframe_times, t_index,
                   sample, phash_differences, avg_phash_diff, audio_similarity>>
    /\ UNCHANGED <<video, image, phash, risk, temp_files>>
    /\ UNCHANGED app_vars

-----------------------------------------------------------------------------
(* The application: main(), MainWindow and its worker threads *)

\* threads one window session starts, numbered in start order
Slots == 1 .. MaxWorkers

\* self.level_slider.setValue(3)
SliderValue == 3

\* self.level_slider.setMinimum(1), setMaximum(5)
SliderMin == 1
SliderMax == 5

\* level = 3 when the level argument is no integer
DefaultLevel == 3

\* MainWindow.update_level_label: the text set on level_label, as the tier
\* it names and the level it shows
update_level_label(level) ==
    IF level <= 2 THEN [tier |-> "low", level |-> level]
    ELSE IF level <= 3 THEN [tier |-> "medium", level |-> level]
    ELSE [tier |-> "high", level |-> level]

\* str.lower() on the file name endings at hand
Lower(ext) ==
    IF ext = ".MOV" THEN ".mov"
    ELSE IF ext = ".Mp4" THEN ".mp4"
    ELSE IF ext = ".AVI" THEN ".avi"
    ELSE IF ext = ".WebM" THEN ".webm"
    ELSE IF ext = ".JPG" THEN ".jpg"
    ELSE ext

VideoExtensions == {".mp4", ".mov", ".avi", ".mkv", ".webm"}

MediaTypeOfMutant(file) ==
    IF file.ext \in VideoExtensions THEN "video" ELSE "image"

\* "video" if file_path.lower().endswith((...)) else "image"
MediaTypeOf(file) ==
    IF Lower(file.ext) \in VideoExtensions THEN "video" ELSE "image"

\* a file that is no image for cv2.imread, no video for ffmpeg.probe
NotAnImage == [readable |-> FALSE, width |-> 0, height |-> 0]
NotAVideo == [readable |-> FALSE, has_video |-> FALSE, has_audio |-> FALSE,
              duration |-> 0]

\* the files the user has: extension, and what cv2.imread and ffmpeg.probe
\* find in them
MediaFile(ext, image_src, video_src) ==
    [ext |-> ext, image |-> image_src, video |-> video_src]

JobFiles ==
    { MediaFile(".jpg", [readable |-> TRUE, width |-> 7, height |-> 7], NotAVideo),
      MediaFile(".png", NotAnImage, NotAVideo),
      MediaFile(".mp4", NotAnImage,
                [readable |-> TRUE, has_video |-> TRUE, has_audio |-> TRUE,
                 duration |-> 5]),
      MediaFile(".MOV", NotAnImage,
                [readable |-> TRUE, has_video |-> TRUE, has_audio |-> FALSE,
                 duration |-> 5]) }

\* the files named on the command line: more endings, in several letter
\* cases, with and without a dot
GoodImage == [readable |-> TRUE, width |-> 7, height |-> 7]
GoodVideo == [readable |-> TRUE, has_video |-> TRUE, has_audio |-> TRUE,
              duration |-> 5]
CliFiles ==
    JobFiles
    \cup { MediaFile(ext, NotAnImage, GoodVideo) :
              ext \in {".Mp4", ".AVI", ".mkv", ".WebM", ".mp4.bak", "mp4"} }
    \cup { MediaFile(ext, GoodImage, NotAVideo) : ext \in {".JPG", ".webp", ""} }

\* the output paths named on the command line
CliOutputs == {"out.jpg", "out.mp4"}

\* process_image as its caller sees it: the exception or True, and the image
\* cv2.imwrite has written if any
ImageCall(src, level, crop_percent, write_ok) ==
    IF ~src.readable
    THEN [status |-> Raised, written |-> None]
    ELSE LET cropped == [width |-> CropSide(src.width, crop_percent),
                         height |-> CropSide(src.height, crop_percent)]
             resized == Resize(cropped, src.width, src.height)
         IN IF resized = Error
            THEN [status |-> Raised, written |-> None]
            ELSE [status |-> "True",
                  written |-> IF write_ok
                              THEN WarpAffine(resized, src.width, src.height)
                              ELSE None]

\* the crop_percent values process_image can draw at a level
CropDraws(level) == RandomUniform(ImageTier(level).crop[1], ImageTier(level).crop[2])

\* what process_video leaves at output_path, and the first 3 seconds of it
ProcessedVideo(src, level) == [video |-> src, level |-> level, cut |-> FALSE]
CutVideo(content) == [content EXCEPT !.cut = TRUE]

TempPreviewPathMutant(w) ==
    IF w = 1 THEN "temp_preview.mp4" ELSE "temp_preview_next.mp4"

\* os.path.join(self.processor.temp_dir, "temp_preview.mp4"), the same for
\* every thread w
TempPreviewPath(w) == "temp_preview.mp4"

\* os.path.join(self.processor.temp_dir, "preview") + extension
PreviewPath(input, media_type) ==
    IF media_type = "image" THEN "preview" \o input.ext ELSE "preview.mp4"

\* the name the save dialog proposes; "" is a cancelled dialog
ExportPath(input, media_type) ==
    IF media_type = "video" THEN "uniquified.mp4" ELSE "uniquified" \o input.ext

NoWorker == [kind |-> "none"]
NoCli == [pc |-> "idle", calls |-> << >>]
NoWindow == [open |-> FALSE, current_file |-> None, media_type |-> None,
             level_slider |-> SliderValue,
             level_label |-> update_level_label(SliderValue)]

\* what QFileDialog.getSaveFileName can return: "" when cancelled
DialogChoices ==
    IF window.current_file = None THEN {""}
    ELSE {"", ExportPath(window.current_file, window.media_type)}

\* PreviewThread(processor, input_path, media_type, level, qt_modules)
PreviewThread(input, media_type, level) ==
    [kind |-> "preview", input |-> input, media_type |-> media_type,
     level |-> level, path |-> PreviewPath(input, media_type),
     pc |-> "run", written |-> FALSE, signals |-> << >>]

\* ProcessingThread(processor, input_path, output_path, media_type, level,
\* qt_modules)
ProcessingThread(input, output_path, media_type, level) ==
    [kind |-> "export", input |-> input, media_type |-> media_type,
     level |-> level, path |-> output_path,
     pc |-> "run", written |-> FALSE, signals |-> << >>]

Running(worker) == worker.kind # "none" /\ worker.pc # "done"

\* the slot of the next thread
FreeSlot(w) == workers[w] = NoWorker /\ \A v \in 1 .. w - 1 : workers[v] # NoWorker

core_vars == <<video, image, phash, risk, pc, original_clip, processed_clip,
               duration, keyframe_times, t_index, sample, phash_differences,
               avg_phash_diff, audio_similarity, analysis>>

\* the level argument of the command line: int(...) or ValueError
LevelArgs == {"-1", "0", "1", "2", "3", "5", "high", "2.5"}
IntOfArg(arg) ==
    IF arg = "-1" THEN [raised |-> FALSE, value |-> -1]
    ELSE IF arg = "0" THEN [raised |-> FALSE, value |-> 0]
    ELSE IF arg = "1" THEN [raised |-> FALSE, value |-> 1]
    ELSE IF arg = "2" THEN [raised |-> FALSE, value |-> 2]
    ELSE IF arg = "3" THEN [raised |-> FALSE, value |-> 3]
    ELSE IF arg = "5" THEN [raised |-> FALSE, value |-> 5]
    ELSE [raised |-> TRUE, value |-> 0]

\* try: level = int(...)  except (ValueError, IndexError): level = 3
ParseLevel(level_arg) ==
    IF IntOfArg(level_arg).raised THEN DefaultLevel ELSE IntOfArg(level_arg).value

\* main(), CLI branch: enough is whether len(sys.argv) >= 5
main_cli(input_file, output_file, level_arg, enough, ok) ==
    /\ mode = "start"
    /\ mode' = "cli"
    /\ IF ~enough
       THEN /\ cli' = [pc |-> "usage", calls |-> << >>]
            /\ UNCHANGED temp_dir
       ELSE LET level == ParseLevel(level_arg)
                media_type == MediaTypeOf(input_file)
            IN /\ temp_dir' = TRUE
               /\ \E crop_percent \in CropDraws(level) :
                    LET r == IF media_type = "image"
                             THEN ImageCall(input_file.image, level, crop_percent, ok)
                             ELSE [status |-> IF VideoEncodes(input_file.video, ok)
                                              THEN "True" ELSE Raised,
                                   written |-> IF VideoEncodes(input_file.video, ok)
                                               THEN ProcessedVideo(input_file.video, level)
                                               ELSE None]
                    IN cli' = [pc |-> IF r.status = Raised THEN "uncaught"
                                      ELSE "completed",
                               input_file |-> input_file, output_file |-> output_file,
                               level_arg |-> level_arg,
                               media_type |-> media_type,
                               level |-> level, written |-> r.written # None,
                               calls |-> << [op |-> IF media_type = "image"
                                                    THEN "process_image"
                                                    ELSE "process_video",
                                             input_path |-> input_file,
                                             output_path |-> output_file,
                                             level |-> level] >>]
    /\ UNCHANGED <<temp_files, window, workers>>
    /\ UNCHANGED core_vars

\* main(), GUI branch: qt_ok is whether PyQt6 can be imported;
\* MainWindow.__init__ makes the one MediaProcessor of the session
main_gui(qt_ok) ==
    /\ mode = "start"
    /\ IF qt_ok
       THEN /\ mode' = "gui"
            /\ temp_dir' = TRUE
            /\ window' = [NoWindow EXCEPT !.open = TRUE]
       ELSE /\ mode' = "exit"
            /\ UNCHANGED <<temp_dir, window>>
    /\ UNCHANGED <<temp_files, cli, workers>>
    /\ UNCHANGED core_vars

\* the user moves the slider: valueChanged calls update_level_label
move_slider(value) ==
    /\ mode = "gui"
    /\ value # window.level_slider
    /\ window' = [window EXCEPT !.level_slider = value,
                                !.level_label = update_level_label(value)]
    /\ UNCHANGED <<temp_files, temp_dir, mode, cli, workers>>
    /\ UNCHANGED core_vars

\* MainWindow.load_file(file_path)
load_file(file) ==
    /\ mode = "gui"
    /\ window' = [window EXCEPT !.current_file = file, !.media_type = MediaTypeOf(file)]
    /\ UNCHANGED <<temp_files, temp_dir, mode, cli, workers>>
    /\ UNCHANGED core_vars

\* MainWindow.generate_preview(): the thread is made and started whatever
\* the earlier threads are doing
generate_preview ==
    /\ mode = "gui"
    /\ window.current_file # None
    /\ \E w \in Slots :
          /\ FreeSlot(w)
          /\ workers' = [workers EXCEPT ![w] =
                PreviewThread(window.current_file, window.media_type,
                              window.level_slider)]
    /\ UNCHANGED <<temp_files, temp_dir, mode, cli, window>>
    /\ UNCHANGED core_vars

\* MainWindow.export_media(): output_path is what the save dialog returns
export_media(output_path) ==
    /\ mode = "gui"
    /\ window.current_file # None
    /\ output_path # ""
    /\ \E w \in Slots :
          /\ FreeSlot(w)
          /\ workers' = [workers EXCEPT ![w] =
                ProcessingThread(window.current_file, output_path,
                                 window.media_type, window.level_slider)]
    /\ UNCHANGED <<temp_files, temp_dir, mode, cli, window>>
    /\ UNCHANGED core_vars

\* PreviewThread.run, image: process_image(input_path, preview_path, level)
PreviewThread_process_image(w, write_ok) ==
    /\ workers[w].kind = "preview" /\ workers[w].media_type = "image"
    /\ workers[w].pc = "run"
    /\ \E crop_percent \in CropDraws(workers[w].level) :
         LET r == ImageCall(workers[w].input.image, workers[w].level,
                            crop_percent, write_ok)
         IN IF r.status = Raised
            THEN /\ workers' = [workers EXCEPT ![w].pc = "except"]
                 /\ UNCHANGED temp_files
            ELSE /\ workers' = [workers EXCEPT ![w].pc = "emit",
                                               ![w].written = (r.written # None)]
                 /\ temp_files' =
                      IF r.written # None
                      THEN WriteFile(temp_files, workers[w].path,
                                     ProcessedFile(r.written))
                      ELSE temp_files
    /\ UNCHANGED <<temp_dir, mode, cli, window>>
    /\ UNCHANGED core_vars

\* PreviewThread.run, video: process_video(input_path, temp_preview, level)
PreviewThread_process_video(w, run_ok) ==
    /\ workers[w].kind = "preview" /\ workers[w].media_type = "video"
    /\ workers[w].pc = "run"
    /\ IF VideoEncodes(workers[w].input.video, run_ok)
       THEN /\ temp_files' = WriteFile(temp_files, TempPreviewPath(w),
                                ProcessedVideo(workers[w].input.video, workers[w].level))
            /\ workers' = [workers EXCEPT ![w].pc = "cut"]
       ELSE /\ workers' = [workers EXCEPT ![w].pc = "except"]
            /\ UNCHANGED temp_files
    /\ UNCHANGED <<temp_dir, mode, cli, window>>
    /\ UNCHANGED core_vars

\* PreviewThread.run, video: ffmpeg.output(ffmpeg.input(temp_preview),
\* preview_path, t=3) is run
PreviewThread_cut(w, run_ok) ==
    /\ workers[w].kind = "preview" /\ workers[w].pc = "cut"
    /\ IF run_ok /\ FileExists(temp_files, TempPreviewPath(w))
       THEN /\ temp_files' = WriteFile(temp_files, workers[w].path,
                                CutVideo(ReadFile(temp_files, TempPreviewPath(w))))
            /\ workers' = [workers EXCEPT ![w].pc = "remove", ![w].written = TRUE]
       ELSE /\ workers' = [workers EXCEPT ![w].pc = "except"]
            /\ UNCHANGED temp_files
    /\ UNCHANGED <<temp_dir, mode, cli, window>>
    /\ UNCHANGED core_vars

\* PreviewThread.run, video: os.remove(temp_preview), FileNotFoundError when
\* the file is gone
PreviewThread_remove(w) ==
    /\ workers[w].kind = "preview" /\ workers[w].pc = "remove"
    /\ IF FileExists(temp_files, TempPreviewPath(w))
       THEN /\ temp_files' = RemoveFile(temp_files, TempPreviewPath(w))
            /\ workers' = [workers EXCEPT ![w].pc = "emit"]
       ELSE /\ workers' = [workers EXCEPT ![w].pc = "except"]
            /\ UNCHANGED temp_files
    /\ UNCHANGED <<temp_dir, mode, cli, window>>
    /\ UNCHANGED core_vars

\* PreviewThread.run: self.preview_ready.emit(preview_path)
PreviewThread_emit(w) ==
    /\ workers[w].kind = "preview" /\ workers[w].pc = "emit"
    /\ workers' = [workers EXCEPT ![w].pc = "done",
                                  ![w].signals = Append(@, workers[w].path)]
    /\ UNCHANGED <<temp_files, temp_dir, mode, cli, window>>
    /\ UNCHANGED core_vars

\* PreviewThread.run: except Exception: self.preview_ready.emit("")
PreviewThread_except(w) ==
    /\ workers[w].kind = "preview" /\ workers[w].pc = "except"
    /\ workers' = [workers EXCEPT ![w].pc = "done",
                                  ![w].signals = Append(@, "")]
    /\ UNCHANGED <<temp_files, temp_dir, mode, cli, window>>
    /\ UNCHANGED core_vars

\* ProcessingThread.run: process_image or process_video(input_path,
\* output_path, level); the output is outside temp_dir
ProcessingThread_process(w, ok) ==
    /\ workers[w].kind = "export" /\ workers[w].pc = "run"
    /\ \E crop_percent \in CropDraws(workers[w].level) :
         LET r == IF workers[w].media_type = "image"
                  THEN ImageCall(workers[w].input.image, workers[w].level,
                                 crop_percent, ok)
                  ELSE [status |-> IF VideoEncodes(workers[w].input.video, ok)
                                   THEN "True" ELSE Raised,
                        written |-> IF VideoEncodes(workers[w].input.video, ok)
                                    THEN ProcessedVideo(workers[w].input.video,
                                                        workers[w].level)
                                    ELSE None]
         IN workers' = [workers EXCEPT
                          ![w].pc = IF r.status = Raised THEN "except" ELSE "emit",
                          ![w].written = (r.written # None)]
    /\ UNCHANGED <<temp_files, temp_dir, mode, cli, window>>
    /\ UNCHANGED core_vars

\* ProcessingThread.run: self.finished.emit(self.output_path)
ProcessingThread_emit(w) ==
    /\ workers[w].kind = "export" /\ workers[w].pc = "emit"
    /\ workers' = [workers EXCEPT ![w].pc = "done",
                                  ![w].signals = Append(@, workers[w].path)]
    /\ UNCHANGED <<temp_files, temp_dir, mode, cli, window>>
    /\ UNCHANGED core_vars

\* ProcessingThread.run: except Exception: self.finished.emit("")
ProcessingThread_except(w) ==
    /\ workers[w].kind = "export" /\ workers[w].pc = "except"
    /\ workers' = [workers EXCEPT ![w].pc = "done",
                                  ![w].signals = Append(@, "")]
    /\ UNCHANGED <<temp_files, temp_dir, mode, cli, window>>
    /\ UNCHANGED core_vars

\* the application before main() has chosen its branch: no processor yet
InitApp ==
    /\ video = NoVideo /\ image = NoImage /\ phash = NoPhash /\ risk = NoRisk
    /\ AnalysisIdle
    /\ temp_files = {}
    /\ temp_dir = FALSE
    /\ mode = "start"
    /\ cli = NoCli
    /\ window = NoWindow
    /\ workers = [w \in Slots |-> NoWorker]

NextApp ==
    \/ \E input_file \in CliFiles, output_file \in CliOutputs,
          level_arg \in LevelArgs, enough \in BOOLEAN, ok \in BOOLEAN :
          main_cli(input_file, output_file, level_arg, enough, ok)
    \/ \E qt_ok \in BOOLEAN : main_gui(qt_ok)
    \/ \E file \in JobFiles : load_file(file)
    \/ generate_preview
    \/ \E output_path \in DialogChoices : export_media(output_path)
    \/ \E w \in Slots, write_ok \in BOOLEAN : PreviewThread_process_image(w, write_ok)
    \/ \E w \in Slots, run_ok \in BOOLEAN : PreviewThread_process_video(w, run_ok)
    \/ \E w \in Slots, run_ok \in BOOLEAN : PreviewThread_cut(w, run_ok)
    \/ \E w \in Slots : PreviewThread_remove(w)
    \/ \E w \in Slots : PreviewThread_emit(w)
    \/ \E w \in Slots : PreviewThread_except(w)
    \/ \E w \in Slots, ok \in BOOLEAN : ProcessingThread_process(w, ok)
    \/ \E w \in Slots : ProcessingThread_emit(w)
    \/ \E w \in Slots : ProcessingThread_except(w)

\* main() and everything it starts
SpecApp == InitApp /\ [][NextApp]_vars

NextWindow ==
    \/ \E qt_ok \in BOOLEAN : main_gui(qt_ok)
    \/ \E value \in SliderMin .. SliderMax : move_slider(value)
    \/ \E file \in JobFiles : load_file(file)
    \/ generate_preview
    \/ \E output_path \in DialogChoices : export_media(output_path)

\* the window with its slider, up to the start of its threads
SpecWindow == InitApp /\ [][NextWindow]_vars

-----------------------------------------------------------------------------
(* The caller *)

\* the caller is done with the finished call and with its processor: the next
\* call is made on a new MediaProcessor, whose temp_dir is a fresh directory
Release ==
    /\ \/ video.called \/ image.called \/ phash.called \/ risk.called
       \/ pc = "returned"
    /\ video' = NoVideo /\ image' = NoImage /\ phash' = NoPhash /\ risk' = NoRisk
    /\ AnalysisReset
    /\ temp_files' = {}
    /\ UNCHANGED app_vars

Init ==
    /\ video = NoVideo /\ image = NoImage /\ phash = NoPhash /\ risk = NoRisk
    /\ AnalysisIdle
    /\ temp_files = {}
    /\ temp_dir = TRUE
    /\ mode = "direct"
    /\ cli = NoCli
    /\ window = NoWindow
    /\ workers = [w \in Slots |-> NoWorker]

NextVideo ==
    \/ \E src \in VideoSources, level \in Levels, run_ok \in BOOLEAN :
          process_video(src, level, run_ok)
    \/ Release

NextImage ==
    \/ \E src \in ImageSources, output_path \in OutputPaths, level \in Levels,
          write_ok \in BOOLEAN :
          process_image(src, output_path, level, write_ok)
    \/ Release

NextRisk ==
    \/ \E p \in RiskInputs, audio \in RiskAudioInputs : classify_risk(p, audio)
    \/ Release

NextMeasure ==
    \/ \E img1, img2 \in Images : calculate_phash_difference(img1, img2)
    \/ \E a, b \in ClipLibrary : analyze_open(a, b)
    \/ \E orig_frame, proc_frame \in FrameOutcomes : analyze_sample(orig_frame, proc_frame)
    \/ analyze_aggregate
    \/ \E ok \in BOOLEAN : analyze_write_orig(ok)
    \/ \E ok \in BOOLEAN : analyze_write_proc(ok)
    \/ \E ok \in BOOLEAN : analyze_compare(ok)
    \/ analyze_cleanup
    \/ analyze_close
    \/ Release

NextTransform ==
    \/ /\ CanCall
       /\ \E src \in VideoSources, level \in Levels, run_ok \in BOOLEAN :
             process_video(src, level, run_ok)
    \/ /\ CanCall
       /\ \E src \in ImageSources, output_path \in OutputPaths, level \in Levels,
             write_ok \in BOOLEAN :
             process_image(src, output_path, level, write_ok)
    \/ Release

\* both transform pipelines
SpecTransform == Init /\ [][NextTransform]_vars

\* the transform pipelines alone, the classifier alone
SpecVideo == Init /\ [][NextVideo]_vars
SpecImage == Init /\ [][NextImage]_vars
SpecRisk == Init /\ [][NextRisk]_vars
\* the measurement engine: hash comparison and video analysis
SpecMeasure == Init /\ [][NextMeasure]_vars

\* every operation of the processor
Next ==
    \/ NextVideo
    \/ NextImage
    \/ NextRisk
    \/ NextMeasure

Spec == Init /\ [][Next]_vars

-----------------------------------------------------------------------------
(* C1: process_video reduces the level to three tiers with fixed encode
   parameters: level 1 gives (0.002, 1, 30, 22), level 2 gives
   (0.003, 1.5, 25, 21), every level >= 3 gives (0.005, 2, 20, 20), and no
   level yields a zoom rate, GOP or CRF outside these three rows. *)
VideoRows ==
    [low |-> [zoom_rate |-> 2, jitter_range |-> 1000, gop_size |-> 30, crf |-> 22],
     medium |-> [zoom_rate |-> 3, jitter_range |-> 1500, gop_size |-> 25, crf |-> 21],
     high |-> [zoom_rate |-> 5, jitter_range |-> 2000, gop_size |-> 20, crf |-> 20]]

VideoEmitted ==
    [zoom_rate |-> video.zoom_rate, jitter_range |-> video.jitter_range,
     gop_size |-> video.gop_size, crf |-> video.crf]

C1_VideoTiers ==
    (video.called /\ "crf" \in DOMAIN video) =>
        /\ video.level = 1 => VideoEmitted = VideoRows.low
        /\ video.level = 2 => VideoEmitted = VideoRows.medium
        /\ video.level >= 3 => VideoEmitted = VideoRows.high
        /\ VideoEmitted \in {VideoRows.low, VideoRows.medium, VideoRows.high}

\* a 10-second source encoded at level 5 with the high row
C1_Witness ==
    /\ video.called /\ video.encoded /\ video.level = 5
    /\ video.src.duration = 20
    /\ video.crf = 20 /\ video.gop_size = 20 /\ video.zoom_rate = 5

(* C2: get_risk_level depends only on the phash difference p: low for
   p >= 45, medium for 30 <= p < 45, high for p < 30, whatever the audio
   argument; a larger difference never yields a higher risk label. *)
RiskRank(label) ==
    IF label = RiskLow THEN 0 ELSE IF label = RiskMedium THEN 1 ELSE 2

C2_RiskThresholds ==
    risk.called =>
        LET p == risk.phash_diff IN
        /\ p.num >= 45 * p.den => risk.label = RiskLow
        /\ (p.num >= 30 * p.den /\ p.num < 45 * p.den) => risk.label = RiskMedium
        /\ p.num < 30 * p.den => risk.label = RiskHigh
        /\ \A q \in RiskInputs, a \in RiskAudioInputs :
              q.num * p.den >= p.num * q.den =>
                  RiskRank(get_risk_level(q, a)) <= RiskRank(risk.label)

\* 44.999 with an audio score given is classified medium
C2_Witness ==
    /\ risk.called
    /\ risk.phash_diff = Rat(44999, 1000)
    /\ risk.audio_similarity = Rat(100, 1)
    /\ risk.label = RiskMedium

(* C3: process_image draws every parameter inside the range of the tier of
   its level (1 low, 2 medium, >= 3 high): crop, scale, noise opacity and
   the hue, saturation and lightness shifts. *)
ImageRanges ==
    [low |-> [crop |-> <<20, 30>>, scale |-> <<995, 1005>>, noise |-> 2,
              h |-> 500, s |-> 1000, l |-> 1500],
     medium |-> [crop |-> <<20, 40>>, scale |-> <<985, 1015>>, noise |-> 3,
                 h |-> 800, s |-> 1500, l |-> 2500],
     high |-> [crop |-> <<30, 60>>, scale |-> <<970, 1030>>, noise |-> 4,
               h |-> 1000, s |-> 2000, l |-> 3000]]

Abs(x) == IF x < 0 THEN -x ELSE x

ImageWithin(r) ==
    /\ r.crop[1] <= image.crop_percent /\ image.crop_percent <= r.crop[2]
    /\ r.scale[1] <= image.scale_factor /\ image.scale_factor <= r.scale[2]
    /\ image.noise_opacity = r.noise
    /\ Abs(image.color_shift_h) <= r.h
    /\ Abs(image.color_shift_s) <= r.s
    /\ Abs(image.color_shift_l) <= r.l

C3_ImageRanges ==
    (image.called /\ image.drawn) =>
        /\ image.level = 1 => ImageWithin(ImageRanges.low)
        /\ image.level = 2 => ImageWithin(ImageRanges.medium)
        /\ image.level >= 3 => ImageWithin(ImageRanges.high)

\* a level-4 call that drew the high tier's extreme saturation and lightness
C3_Witness ==
    /\ image.called /\ image.drawn /\ image.level = 4
    /\ image.status = "True"
    /\ image.color_shift_s = -2000 /\ image.color_shift_l = 3000
    /\ image.crop_percent = 60

(* C4: the crop rectangle of process_image lies inside the source
   (0 <= start_x, start_x + crop_w <= W, 0 <= start_y, start_y + crop_h <= H)
   and the image written has exactly the source's width and height. *)
C4_CropInsideSameSize ==
    (image.called /\ image.drawn) =>
        /\ 0 <= image.start_x /\ image.start_x + image.crop_w <= image.src.width
        /\ 0 <= image.start_y /\ image.start_y + image.crop_h <= image.src.height
        /\ image.written # None =>
              /\ image.written.width = image.src.width
              /\ image.written.height = image.src.height

\* a crop placed at the far corner of a non-square image, written out
C4_Witness ==
    /\ image.called /\ image.drawn /\ image.written # None
    /\ image.src.width = 7 /\ image.src.height = MaxSide
    /\ image.start_x > 0 /\ image.start_x + image.crop_w = image.src.width
    /\ image.start_y > 0 /\ image.start_y + image.crop_h = image.src.height

(* C5: every percentage the core returns lies in [0, 100]: the value of
   calculate_phash_difference, every per-sample percentage, the averaged
   phash difference and the audio dissimilarity of
   analyze_video_uniqueness, on every path. *)
InPercent(x) == x.den > 0 /\ 0 <= x.num /\ x.num <= 100 * x.den

C5_PercentagesInRange ==
    /\ (phash.called /\ phash.status = "ok") => InPercent(phash.percentage)
    /\ \A i \in 1 .. Len(phash_differences) : InPercent(phash_differences[i])
    /\ (sample # None /\ ~sample.failed) => InPercent(sample.percentage)
    /\ avg_phash_diff # None => InPercent(avg_phash_diff)
    /\ audio_similarity # None => InPercent(audio_similarity)
    /\ (pc = "returned" /\ analysis.status = "ok") =>
          /\ InPercent(analysis.avg_phash_diff)
          /\ InPercent(analysis.audio_similarity)

\* an analysis that skipped a sample, kept one, and compared two audio tracks
\* of different lengths that are neither equal nor orthogonal
C5_Witness ==
    /\ pc = "returned" /\ analysis.status = "ok"
    /\ Len(phash_differences) = 1 /\ Len(keyframe_times) = 2
    /\ analysis.avg_phash_diff.num > 0
    /\ original_clip.audio = Wave(<<1, 1>>)
    /\ processed_clip.audio = Wave(<<1, 0, 1>>)
    /\ analysis.audio_similarity.num > 0
    /\ analysis.audio_similarity.num < 100 * analysis.audio_similarity.den

(* C6: calculate_phash_difference divides the Hamming distance of the two
   hashes by the total number of hash bits (distance / 64 * 100): an image
   against itself gives exactly 0, hashes differing in all bits give
   exactly 100. *)
DifferingBits(h1, h2) ==
    Cardinality({ cell \in HashCells : h1[cell[1]][cell[2]] # h2[cell[1]][cell[2]] })

TotalBits == Cardinality(HashCells)

C6_HashNormalised ==
    (phash.called /\ phash.status = "ok") =>
        LET d == DifferingBits(phash.hash1, phash.hash2) IN
        /\ TotalBits = 64
        /\ phash.percentage.den > 0
        /\ phash.percentage.num * TotalBits = 100 * d * phash.percentage.den
        /\ phash.img1 = phash.img2 => phash.percentage.num = 0
        /\ d = TotalBits => phash.percentage.num = 100 * phash.percentage.den

\* two images whose hashes differ in every bit
C6_Witness ==
    /\ phash.called /\ phash.status = "ok"
    /\ phash.img1 = "ramp" /\ phash.img2 = "rampinv"
    /\ DifferingBits(phash.hash1, phash.hash2) = 64
    /\ phash.percentage.num = 100 * phash.percentage.den

(* C7: analyze_video_uniqueness samples at most 10 time points, fewer than
   10 when the common duration is below 10 seconds; every point lies in
   [0, min(durationA, durationB)] and consecutive points are equally
   spaced. *)
RatSub(x, y) == Rat(x.num * y.den - y.num * x.den, x.den * y.den)

CommonHalfSeconds == Min(original_clip.duration, processed_clip.duration)

C7_KeyframeTimes ==
    (pc # "idle" /\ original_clip.readable /\ processed_clip.readable) =>
        LET n == Len(keyframe_times) IN
        /\ n <= 10
        /\ CommonHalfSeconds < 2 * 10 => n < 10
        /\ \A i \in 1 .. n :
              /\ keyframe_times[i].den > 0
              /\ 0 <= keyframe_times[i].num
              /\ 2 * keyframe_times[i].num <= CommonHalfSeconds * keyframe_times[i].den
        /\ \A i \in 1 .. n - 2 :
              RatEq(RatSub(keyframe_times[i + 1], keyframe_times[i]),
                    RatSub(keyframe_times[i + 2], keyframe_times[i + 1]))

\* ten time points over two clips longer than ten seconds
C7_Witness ==
    /\ pc = "loop" /\ Len(keyframe_times) = 10
    /\ CommonHalfSeconds > 2 * 10
    /\ keyframe_times[10].num > 0

(* C8: a failure of frame extraction or hashing at one time point skips
   only that sample: the loop goes on over the remaining time points, the
   call returns without error, and the average is the arithmetic mean of
   exactly the samples that succeeded. *)
SampleMean(s) == Rat(RatSum(s).num, RatSum(s).den * Len(s))

C8_AfterLoop ==
    /\ avg_phash_diff # None =>
          /\ t_index = Len(keyframe_times)
          /\ Len(phash_differences) > 0 =>
                /\ avg_phash_diff.den > 0
                /\ RatEq(avg_phash_diff, SampleMean(phash_differences))
    /\ (pc = "returned" /\ original_clip.readable /\ processed_clip.readable) =>
          /\ analysis.status = "ok"
          /\ analysis.avg_phash_diff = avg_phash_diff

C8_Iteration ==
    t_index' = t_index + 1 =>
        /\ pc' = "loop"
        /\ sample'.failed => phash_differences' = phash_differences
        /\ ~sample'.failed =>
              phash_differences' = Append(phash_differences, sample'.percentage)

C8_FailedSampleSkipped == []C8_AfterLoop /\ [][C8_Iteration]_vars

\* ten time points of which some failed and the kept ones differ
C8_Witness ==
    /\ pc = "returned" /\ analysis.status = "ok"
    /\ Len(keyframe_times) = 10
    /\ Len(phash_differences) = 3
    /\ sample.failed
    /\ phash_differences[1] # phash_differences[2]
    /\ RatEq(analysis.avg_phash_diff, SampleMean(phash_differences))

(* C9: when no per-sample comparison succeeds (every extraction fails, or
   no time point is sampled), the returned average phash difference is
   exactly 0 and no error is raised. *)
C9_NoSampleGivesZero ==
    /\ (avg_phash_diff # None /\ phash_differences = << >>) =>
          avg_phash_diff = Rat(0, 1)
    /\ (pc = "returned" /\ original_clip.readable /\ processed_clip.readable
          /\ phash_differences = << >>) =>
          /\ analysis.status = "ok"
          /\ analysis.avg_phash_diff = Rat(0, 1)

\* all ten extractions failed and the call returned
C9_Witness ==
    /\ pc = "returned" /\ analysis.status = "ok"
    /\ Len(keyframe_times) = 10 /\ t_index = 10
    /\ phash_differences = << >>
    /\ analysis.avg_phash_diff = Rat(0, 1)

(* C10: if either asset lacks an audio track, the audio-dissimilarity
   component of the result is absent, not the number 0. *)
C10_AudioAbsentWithoutTrack ==
    (pc = "returned" /\ analysis.status = "ok"
        /\ ~BothHaveAudio(original_clip, processed_clip)) =>
        analysis.audio_similarity = None

(* C11: after analyze_video_uniqueness returns, neither temporary waveform
   file (orig_audio.wav, proc_audio.wav) exists any more, whichever step
   of the audio branch failed or succeeded. *)
C11_WaveformsRemoved ==
    pc = "returned" =>
        /\ ~FileExists(temp_files, OrigAudioPath)
        /\ ~FileExists(temp_files, ProcAudioPath)

(* C12: the audio branch is fail-soft: a failure inside it is caught, the
   audio score is omitted, and the call returns the average phash
   difference computed before the branch, unchanged, with both clips
   closed. *)
C12_AudioBranchFailSoft ==
    (pc = "returned" /\ analysis.status = "ok" /\ analysis.audio_error) =>
        /\ analysis.audio_similarity = None
        /\ analysis.avg_phash_diff = avg_phash_diff
        /\ RatEq(analysis.avg_phash_diff, AvgPhashDiff(phash_differences))
        /\ analysis.clips_closed

\* the parts of C12 the code does keep: the failure is caught, the average
\* is returned unchanged and the clips are closed
C12_CaughtAndClosed ==
    /\ (pc = "except") => avg_phash_diff # None
    /\ (pc = "returned" /\ analysis.status = "ok" /\ analysis.audio_error) =>
          /\ analysis.avg_phash_diff = avg_phash_diff
          /\ RatEq(analysis.avg_phash_diff, AvgPhashDiff(phash_differences))
          /\ analysis.clips_closed

(* C13: process_image, process_video and calculate_phash_difference are
   fail-loud: when reading or probing the input, encoding, or writing the
   output fails, the caller gets the error and never the result True; True
   is returned only when the output asset was produced. *)
C13_FailLoud ==
    /\ image.called =>
          /\ (~image.src.readable) => image.status = Raised
          /\ image.status = "True" => image.written # None
    /\ video.called =>
          /\ ~(video.src.readable /\ video.src.has_video) => video.status = Raised
          /\ video.status = "True" => video.encoded
    /\ (phash.called /\ (ImgInvalid.name \in {phash.img1, phash.img2})) =>
          phash.status = Raised

\* the part of C13 the code keeps: the video transform and the hash
\* comparison report success only with their result, and an unreadable image
\* raises
C13_LoudExceptImageWrite ==
    /\ (image.called /\ ~image.src.readable) => image.status = Raised
    /\ video.called =>
          /\ ~(video.src.readable /\ video.src.has_video) => video.status = Raised
          /\ video.status = "True" => video.encoded
    /\ (phash.called /\ (ImgInvalid.name \in {phash.img1, phash.img2})) =>
          phash.status = Raised

(* C20: process_video builds the audio filter chain and maps an audio output
   exactly when the probed source has an audio stream; without one the
   audio branch is left out and the encode gets the video stream only. *)
C20_AudioChainIffAudioStream ==
    (video.called /\ video.src.readable /\ video.src.has_video) =>
        (video.audio_mapped <=> video.src.has_audio)

(* C19: process_image never changes the source file: whatever the input
   path, output path and level, the file at input_path holds after the
   call what it held before, also when output_path names that same file. *)
C19_SourceNeverMutated ==
    image.called => image.input_after = SourceFile(image.src)

\* the source is left alone whenever the output path names another file
C19_SourceKeptAtOtherPath ==
    (image.called /\ image.output_path # InputPath) =>
        image.input_after = SourceFile(image.src)

\* the threads started so far
Started == { w \in Slots : workers[w].kind # "none" }

(* C14: every collaborator catches the errors of process_image and
   process_video at its boundary: none leaves ProcessingThread.run,
   PreviewThread.run or the CLI branch of main uncaught; each ends in a
   reported failure. *)
C14_CaughtAtBoundary ==
    /\ cli.pc # "uncaught"
    /\ \A w \in Started :
          workers[w].pc = "done" => Len(workers[w].signals) = 1

\* the part of C14 the code keeps: a thread whose transform raised ends with
\* the empty marker signalled
C14_ThreadsCatch ==
    [][\A w \in Started :
          workers[w].pc = "except" =>
             \/ workers'[w] = workers[w]
             \/ /\ workers'[w].pc = "done"
                /\ workers'[w].signals = <<"">>]_vars

(* C15: at most one background worker runs per processor: in every state
   the window can reach, no second preview or export thread is started on
   the MediaProcessor while an earlier one has not finished. *)
C15_OneWorkerAtATime ==
    Cardinality({ w \in Started : Running(workers[w]) }) <= 1

(* C16: a started job emits exactly one completion signal, only after its
   transform has completed or failed: the output path after a success, the
   empty marker after a failure, and never a path before the output is
   written. *)
C16_OneSignalAfterTransform ==
    \A w \in Started :
       /\ workers[w].pc # "done" => workers[w].signals = << >>
       /\ workers[w].pc = "done" =>
             /\ Len(workers[w].signals) = 1
             /\ workers[w].signals[1] \in {"", workers[w].path}
             /\ workers[w].signals[1] # "" => workers[w].written

\* the part of C16 the code keeps: one signal per job, at its end
C16_ExactlyOneSignal ==
    \A w \in Started :
       /\ workers[w].pc # "done" => workers[w].signals = << >>
       /\ workers[w].pc = "done" =>
             /\ Len(workers[w].signals) = 1
             /\ workers[w].signals[1] \in {"", workers[w].path}

\* thread w has written its intermediate video and not yet removed it
HoldsTempPreview(w) ==
    /\ workers[w].kind = "preview" /\ workers[w].media_type = "video"
    /\ workers[w].pc \in {"cut", "remove"}

(* C17: two jobs running on one processor share its working directory and
   the fixed intermediate file names, so that one job can overwrite or
   remove an intermediate file the other has written and not yet read;
   the code has nothing against it.  Invariant: two threads that both hold
   their intermediate video hold it in one and the same file. *)
C17_SharedIntermediates ==
    \A v, w \in Slots :
       (v # w /\ HoldsTempPreview(v) /\ HoldsTempPreview(w)) =>
          /\ TempPreviewPath(v) = TempPreviewPath(w)
          /\ workers[v].path = workers[w].path
          /\ Cardinality({ f \in temp_files :
                 f.name \in {TempPreviewPath(v), TempPreviewPath(w)} }) <= 1

\* a thread has written temp_preview.mp4 and is about to read it, and the
\* other thread, still running, has removed the file
C17_Witness ==
    \E v, w \in Slots :
       /\ v # w
       /\ workers[w].kind = "preview" /\ workers[w].pc = "cut"
       /\ ~FileExists(temp_files, TempPreviewPath(w))
       /\ workers[v].kind = "preview" /\ workers[v].media_type = "video"
       /\ workers[v].pc = "emit"

(* C18: the working directory made when the MediaProcessor is constructed is
   cleaned up on normal completion: once a job has finished without error
   the directory and the intermediate files in it are gone.  Stated for
   the job after which nothing else runs, the CLI run. *)
C18_WorkdirCleaned ==
    cli.pc = "completed" => (~temp_dir /\ temp_files = {})

\* no step of the application removes the directory or a preview file
C18_NothingCleansUp ==
    [][/\ temp_dir => temp_dir'
       /\ \A f \in temp_files :
             f.name # TempPreviewPath(1) => FileExists(temp_files', f.name)]_vars

\* the endings of the files at hand that spell one of .mp4 .mov .avi .mkv
\* .webm in some letter case
VideoSpellings == {".mp4", ".Mp4", ".MOV", ".AVI", ".mkv", ".WebM"}

\* the level arguments at hand that are integer numerals, with their values
NumeralArgs == {<<"-1", -1>>, <<"0", 0>>, <<"1", 1>>, <<"2", 2>>, <<"3", 3>>,
                <<"5", 5>>}

\* main got its three arguments and went on to the transform
CliRan == cli.pc \in {"completed", "uncaught"}

(* C21: in CLI mode with an input path, an output path and a level
   argument, main uses level 3 whenever the level argument is no integer
   numeral, and dispatches on the input name's ending whatever its letter
   case: .mp4 .mov .avi .mkv .webm go to process_video, every other input to
   process_image; the one chosen is called exactly once, with the given
   paths and the resolved level. *)
C21_CliLevelAndDispatch ==
    /\ CliRan =>
          /\ Len(cli.calls) = 1
          /\ cli.calls[1].input_path = cli.input_file
          /\ cli.calls[1].output_path = cli.output_file
          /\ \A n \in NumeralArgs : cli.level_arg = n[1] => cli.calls[1].level = n[2]
          /\ (\A n \in NumeralArgs : cli.level_arg # n[1]) => cli.calls[1].level = 3
          /\ cli.calls[1].op = IF cli.input_file.ext \in VideoSpellings
                               THEN "process_video" ELSE "process_image"
    /\ ~CliRan => cli.calls = << >>

\* an upper-case .AVI input with a level argument that is no integer
C21_Witness ==
    /\ cli.pc = "completed"
    /\ cli.input_file.ext = ".AVI" /\ cli.level_arg = "high"
    /\ cli.calls = << [op |-> "process_video", input_path |-> cli.input_file,
                       output_path |-> cli.output_file, level |-> 3] >>

\* the tier whose parameter set process_image / process_video use at a level:
\* the sets of levels 1, 2 and 3 are the low, medium and high ones
AppliedImageTier(level) ==
    IF ImageTier(level) = ImageTier(1) THEN "low"
    ELSE IF ImageTier(level) = ImageTier(2) THEN "medium"
    ELSE "high"

AppliedVideoTier(level) ==
    IF VideoTier(level) = VideoTier(1) THEN "low"
    ELSE IF VideoTier(level) = VideoTier(2) THEN "medium"
    ELSE "high"

(* C22: the tier the level label names is the tier the processing applies
   for the same slider value: for every slider value 1..5 the label shows
   low / medium / high exactly when process_image and process_video, called
   with that value by generate_preview and export_media, use the low /
   medium / high parameter set. *)
C22_LabelNamesAppliedTier ==
    /\ window.open =>
          /\ window.level_label.level = window.level_slider
          /\ window.level_label.tier = AppliedImageTier(window.level_slider)
          /\ window.level_label.tier = AppliedVideoTier(window.level_slider)
    /\ \A w \in Started :
          /\ update_level_label(workers[w].level).tier
                = AppliedImageTier(workers[w].level)
          /\ update_level_label(workers[w].level).tier
                = AppliedVideoTier(workers[w].level)

\* the part of C22 the code keeps: the label follows the slider, the threads
\* get the slider's value, and label and processing agree at 1, 4 and 5
C22_AgreeOutsideTwoAndThree ==
    /\ window.open =>
          /\ window.level_label = update_level_label(window.level_slider)
          /\ window.level_slider \in {1, 4, 5} =>
                /\ window.level_label.tier = AppliedImageTier(window.level_slider)
                /\ window.level_label.tier = AppliedVideoTier(window.level_slider)
    /\ \A w \in Started : workers[w].level \in SliderMin .. SliderMax

(* C23: for every source image of width >= 1 and height >= 1 and every crop
   fraction a tier can draw, the crop of process_image is non-empty:
   crop_w = int(W * (1 - fraction)) >= 1 and crop_h = int(H * (1 - fraction))
   >= 1, so the resize back to (W, H) gets at least one pixel and does not
   fail. *)
C23_CropNonEmpty ==
    (image.called /\ image.drawn
        /\ image.src.width >= 1 /\ image.src.height >= 1) =>
        /\ image.crop_w >= 1
        /\ image.crop_h >= 1
        /\ image.status = "True"

\* the crop is non-empty whenever both sides are at least 2 pixels
C23_NonEmptyFromTwoPixels ==
    (image.called /\ image.drawn
        /\ image.src.width >= 2 /\ image.src.height >= 2) =>
        /\ image.crop_w >= 1
        /\ image.crop_h >= 1
        /\ image.status = "True"

(* C24: process_image and process_video reject no integer level: every
   level other than 1 and 2, zero and negative ones and those above 5
   included, selects the high tier's parameters, so a level below 1 gives
   the strongest perturbation, not an error and not the weakest one. *)
C24_AnyLevelHighTier ==
    /\ (image.called /\ image.src.readable) =>
          /\ image.drawn
          /\ image.level \notin {1, 2} =>
                /\ ImageWithin(ImageRanges.high)
                /\ image.status = Raised => (image.crop_w = 0 \/ image.crop_h = 0)
    /\ (video.called /\ video.src.readable /\ video.src.has_video) =>
          /\ "crf" \in DOMAIN video
          /\ video.level \notin {1, 2} => VideoEmitted = VideoRows.high

\* a call at level -1 that succeeded with the high tier's largest crop
C24_Witness ==
    /\ image.called /\ image.level = -1
    /\ image.status = "True" /\ image.written # None
    /\ image.noise_opacity = 4 /\ image.crop_percent = 60

====
